---- MODULE Spec2Model ----
(***************************************************************************)
(* Model of opensense_failover.py: the failover controller (main), the     *)
(* master detector (check_opnsense_master) and the reconciler              *)
(* (FritzboxTR064.update_for_master) working against the router's NAT      *)
(* table through the TR-064 calls GetGenericPortMappingEntry,              *)
(* DeletePortMapping and AddPortMapping.                                   *)
(*                                                                         *)
(* The router is the environment: every call may be answered with success, *)
(* with an error answer (_soap returns None) or not at all (requests.post  *)
(* raises, which no method of FritzboxTR064 catches).  The NAT table keeps *)
(* one entry per (ExternalPort, Protocol), in index order.                 *)
(***************************************************************************)
EXTENDS Integers, Sequences, FiniteSets, TLC

(* ---------------------------------------------------------------------- *)
(* Bounds                                                                  *)
(* ---------------------------------------------------------------------- *)
\* longest FORWARDING_PORTS list drawn
MaxRules == 2
\* longest NAT table the router starts with
MaxTable == 2
\* most calls the router fails (error answer, no answer, short listing) in one run
MaxFaults == 2

(* ---------------------------------------------------------------------- *)
(* Configuration values                                                    *)
(* ---------------------------------------------------------------------- *)
None == "None"

\* OPNSENSE_NODES.items() iterates in insertion order
NodeOrder == <<"10.1.1.3", "10.1.1.4">>
Nodes == {NodeOrder[i] : i \in 1..Len(NodeOrder)}
Other(n) == CHOOSE o \in Nodes : o # n

wan_ip(lan_ip) == IF lan_ip = "10.1.1.3" THEN "192.168.178.3" ELSE "192.168.178.4"
hostname(lan_ip) == IF lan_ip = "10.1.1.3" THEN "PC-192-178-3" ELSE "PC-192-178-4"

\* external ports a rule can name (the source leaves the numbers blank)
Ports == {443, 8443}
Protocols == {"TCP", "UDP"}

\* every (external, protocol) a rule can have, in ascending order
AllKeys ==
  << [external |-> 443, protocol |-> "TCP"], [external |-> 443, protocol |-> "UDP"],
     [external |-> 8443, protocol |-> "TCP"], [external |-> 8443, protocol |-> "UDP"] >>

\* one entry of FORWARDING_PORTS: the internal port equals the external one
Rule(k) == [external |-> k.external, internal |-> k.external, protocol |-> k.protocol]

\* the elements of AllKeys at the indices S, in index order
RuleList(S) ==
  LET n == Cardinality(S)
      f == CHOOSE g \in [1..n -> S] : \A i, j \in 1..n : i < j => g[i] < g[j]
  IN  [i \in 1..n |-> Rule(AllKeys[f[i]])]

\* The FORWARDING_PORTS lists drawn: 1..MaxRules rules with distinct keys, the
\* first one 443/TCP (ports and protocols are names that can be exchanged).
RuleLists ==
  {RuleList(S) : S \in {T \in SUBSET (1..Len(AllKeys)) :
                          1 \in T /\ Cardinality(T) \in 1..MaxRules}}

\* the OPNSENSE_NODES dicts drawn: every choice of the two "ports" lists
NodeConfigs ==
  {[n \in Nodes |-> [lan_ip |-> n, wan_ip |-> wan_ip(n), hostname |-> hostname(n),
                     ports |-> pp[n]]] : pp \in [Nodes -> SUBSET Ports]}

(* ---------------------------------------------------------------------- *)
(* The router's NAT table                                                  *)
(* ---------------------------------------------------------------------- *)
\* an entry of the NAT table
Mapping(k, wan) ==
  [ExternalPort |-> k.external, Protocol |-> k.protocol, InternalPort |-> k.external,
   InternalClient |-> wan]

SameKey(m1, m2) == m1.ExternalPort = m2.ExternalPort /\ m1.Protocol = m2.Protocol

\* The tables the router can start with: at most MaxTable entries, one per key,
\* in the order of AllKeys, each forwarding to one of the two nodes.
Tables ==
  UNION { {[i \in 1..Len(RuleList(S)) |-> Mapping(RuleList(S)[i], w[i])] :
             w \in [1..Cardinality(S) -> {wan_ip(n) : n \in Nodes}]} :
          S \in {T \in SUBSET (1..Len(AllKeys)) : Cardinality(T) <= MaxTable} }

HasKey(t, port, proto) ==
  \E i \in 1..Len(t) : t[i].ExternalPort = port /\ t[i].Protocol = proto

\* router side of DeletePortMapping: the entry with that key leaves the table
DevDelete(t, port, proto) ==
  SelectSeq(t, LAMBDA m : ~(m.ExternalPort = port /\ m.Protocol = proto))

\* router side of AddPortMapping: the entry of that key is written, at its
\* index when the key is mapped already and as a new last entry otherwise
DevAdd(t, port, wan, internal, proto) ==
  LET new == [ExternalPort |-> port, Protocol |-> proto, InternalPort |-> internal,
              InternalClient |-> wan]
  IN  IF HasKey(t, port, proto)
      THEN [i \in 1..Len(t) |-> IF SameKey(t[i], new) THEN new ELSE t[i]]
      ELSE Append(t, new)

\* str(): the decimal text of a port number
Str(n) == ToString(n)

\* the reply to GetGenericPortMappingEntry(idx) as get_port_mappings keeps it:
\* the New* elements as text under their names without "New", plus Index
ParseEntry(m, idx) ==
  [ExternalPort |-> Str(m.ExternalPort), Protocol |-> m.Protocol,
   InternalPort |-> Str(m.InternalPort), InternalClient |-> m.InternalClient,
   Index |-> idx]

\* get_port_mappings when the router answers the indices 0..n-1 and fails index n
get_port_mappings(t, n) == [i \in 1..n |-> ParseEntry(t[i], i - 1)]

VARIABLES
  FORWARDING_PORTS,  \* the configured rules, a list
  OPNSENSE_NODES,    \* lan_ip -> node configuration
  table,             \* the router's NAT table
  faults,            \* calls the router may still fail in this run
  current,           \* main: the recorded master (lan_ip) or None
  pc,                \* where the program is
  master,            \* main: what check_opnsense_master returned, the node reconciled
  mappings,          \* update_for_master: the list get_port_mappings returned
  del_q,             \* update_for_master: delete calls of loop 1 still to issue
  add_q,             \* update_for_master: add calls of loop 2 still to issue
  ok,                \* update_for_master: adds that succeeded
  ops,               \* history: remote calls issued by this update_for_master
  full,              \* history: the listing returned the whole table
  table0,            \* history: the table when this update_for_master began
  status,            \* detector input: each node's answer to the status query
  ping,              \* detector input: whether each node answers the ping
  via,               \* detector: the signal that chose the node returned
  evaluated,         \* detector: the number of nodes whose status was queried
  idx,               \* get_port_mappings: the index of the next query
  stable,            \* environment: the node every detection returns from now on, or None
  calls,             \* direct caller of update_for_master: calls made so far
  table1             \* direct caller of update_for_master: the table after call 1

vars == <<FORWARDING_PORTS, OPNSENSE_NODES, table, faults, current, pc, master,
          mappings, del_q, add_q, ok, ops, full, table0, status, ping, via,
          evaluated, idx, stable, calls, table1>>

config == <<FORWARDING_PORTS, OPNSENSE_NODES>>
locals == <<mappings, del_q, add_q, ok, ops, full, table0>>
detector == <<status, ping, via, evaluated>>
caller == <<calls, table1>>
listing == <<idx>>
environment == <<stable>>

(* ---------------------------------------------------------------------- *)
(* check_opnsense_master                                                   *)
(* ---------------------------------------------------------------------- *)
\* Answers to the status query.  "timeout", "unreachable": requests.get raises;
\* "malformed": status 200 and r.json() raises; "http_error": a status other
\* than 200; "200": status 200 and a JSON document, given by its interfaces.
\* An interface is what the two substring tests see of its lower-cased text:
\* whether it contains "carp" and whether it contains "master".
Raising == {"timeout", "unreachable", "malformed"}
Replies ==
  { {}, {[carp |-> TRUE, master |-> FALSE]}, {[carp |-> TRUE, master |-> TRUE]},
    {[carp |-> TRUE, master |-> FALSE], [carp |-> FALSE, master |-> TRUE]} }
StatusAnswers ==
  [kind : Raising \cup {"http_error"}, ifaces : {{}}] \cup [kind : {"200"}, ifaces : Replies]

\* lines 229-233: status 200 and some interface's text holds both markers
ReportsMaster(a) == a.kind = "200" /\ \E iface \in a.ifaces : iface.carp /\ iface.master

\* lines 224-244 from the i-th node on: the node returned, the signal that
\* chose it and the number of nodes whose status was queried
RECURSIVE check_from(_, _, _)
check_from(i, st, pg) ==
  IF i > Len(NodeOrder) THEN [node |-> None, via |-> "none", evaluated |-> Len(NodeOrder)]
  ELSE LET lan_ip == NodeOrder[i] IN
       IF st[lan_ip].kind \in Raising
       THEN IF pg[lan_ip] THEN [node |-> lan_ip, via |-> "ping", evaluated |-> i]
            ELSE check_from(i + 1, st, pg)
       ELSE IF ReportsMaster(st[lan_ip]) THEN [node |-> lan_ip, via |-> "status", evaluated |-> i]
            ELSE check_from(i + 1, st, pg)

\* as check_opnsense_master, but a node whose ping fails ends the search
check_StopAtDeadNode(st, pg) ==
  IF st[NodeOrder[1]].kind \in Raising /\ ~pg[NodeOrder[1]]
  THEN [node |-> None, via |-> "none", evaluated |-> 1]
  ELSE check_from(1, st, pg)

\* as check_opnsense_master, but the return code of ping is read the wrong way round
check_PingInverted(st, pg) == check_from(1, st, [n \in Nodes |-> ~pg[n]])

\* as check_opnsense_master, but every node's status is asked before any ping
check_StatusFirst(st, pg) ==
  LET byStatus == {i \in 1..Len(NodeOrder) : ReportsMaster(st[NodeOrder[i]])}
      byPing == {i \in 1..Len(NodeOrder) : st[NodeOrder[i]].kind \in Raising /\ pg[NodeOrder[i]]}
      first(S) == CHOOSE i \in S : \A j \in S : i <= j
  IN  IF byStatus # {}
      THEN [node |-> NodeOrder[first(byStatus)], via |-> "status", evaluated |-> first(byStatus)]
      ELSE IF byPing # {}
           THEN [node |-> NodeOrder[first(byPing)], via |-> "ping", evaluated |-> Len(NodeOrder)]
           ELSE [node |-> None, via |-> "none", evaluated |-> Len(NodeOrder)]

check_opnsense_master(st, pg) == check_from(1, st, pg)

\* what check_opnsense_master can return
Detections ==
  {check_opnsense_master(st, pg).node : st \in [Nodes -> StatusAnswers], pg \in [Nodes -> BOOLEAN]}

(* ---------------------------------------------------------------------- *)
(* update_for_master                                                       *)
(* ---------------------------------------------------------------------- *)
\* line 197: a configured rule and a listed mapping have the same key
Matches(cfg, m) == Str(cfg.external) = m.ExternalPort /\ cfg.protocol = m.Protocol

\* lines 195-199: the delete calls of loop 1, one per (rule, listed mapping) match
RECURSIVE DeleteCallsFrom(_, _, _)
DeleteCallsFrom(rules, cur, i) ==
  IF i > Len(rules) THEN <<>>
  ELSE LET hits == SelectSeq(cur, LAMBDA m : Matches(rules[i], m))
       IN  [j \in 1..Len(hits) |-> rules[i]] \o DeleteCallsFrom(rules, cur, i + 1)

\* as DeleteCalls, but loop 1 leaves out the first rule
DeleteCalls_SkipFirst(rules, cur) == DeleteCallsFrom(rules, cur, 2)

\* as DeleteCalls, but loop 1 only visits the rules of the node being set
DeleteCalls_OnlyMaster(rules, cur) ==
  DeleteCallsFrom(SelectSeq(rules, LAMBDA cfg : cfg.external \in OPNSENSE_NODES[master].ports),
                  cur, 1)

\* as DeleteCalls, but a rule matches a listed mapping by its port alone and
\* the delete is issued for the listed mapping's protocol
RECURSIVE DeleteCallsByPortFrom(_, _, _)
DeleteCallsByPortFrom(rules, cur, i) ==
  IF i > Len(rules) THEN <<>>
  ELSE LET hits == SelectSeq(cur, LAMBDA m : Str(rules[i].external) = m.ExternalPort)
       IN  [j \in 1..Len(hits) |->
              [external |-> rules[i].external, protocol |-> hits[j].Protocol]]
           \o DeleteCallsByPortFrom(rules, cur, i + 1)

DeleteCalls_ByPort(rules, cur) == DeleteCallsByPortFrom(rules, cur, 1)

\* lines 195-199 from the first rule on
DeleteCalls(rules, cur) == DeleteCallsFrom(rules, cur, 1)

\* lines 204-205: the rules loop 2 adds, those whose external port is in master["ports"]
\* as AddCalls, but without the test of line 205
AddCalls_All(rules, m) == rules

AddCalls(rules, m) == SelectSeq(rules, LAMBDA cfg : cfg.external \in m.ports)

\* as Continue, but an add goes before the deletes still due
Continue_AddFirst(dq, aq) ==
  IF aq # <<>> THEN "add" ELSE IF dq # <<>> THEN "delete" ELSE "return"

\* as Continue, but loop 2 is left out once loop 1 has deleted something
Continue_ReturnAfterDelete(dq, aq) ==
  IF dq # <<>> THEN "delete" ELSE IF aq # <<>> /\ pc # "delete" THEN "add" ELSE "return"

\* lines 195-217: loop 1, then loop 2, then the return
Continue(dq, aq) == IF dq # <<>> THEN "delete" ELSE IF aq # <<>> THEN "add" ELSE "return"

\* answers of the router to a mutating call
Answers == {"ok", "error", "raise"}

\* as AfterCall, but an error answer ends the pass
AfterCall_AbortOnError(res, next) ==
  IF res = "raise" THEN "raised" ELSE IF res = "error" THEN "return" ELSE next

\* lines 107-121, 162-167, 181-186: an exception of requests.post leaves
\* update_for_master; an error answer makes the call return False and the
\* loop goes on
AfterCall(res, next) == IF res = "raise" THEN "raised" ELSE next

\* lines 190-192 and 124-153: the router answers the indices below n, or a
\* request of the listing raises
GetPortMappings ==
  /\ pc = "list"
  /\ \E n \in 0..Len(table), raised \in BOOLEAN :
       /\ (raised \/ n < Len(table)) => faults > 0
       /\ faults' = IF raised \/ n < Len(table) THEN faults - 1 ELSE faults
       /\ IF raised \/ master \notin Nodes
          THEN /\ pc' = "raised"
               /\ UNCHANGED <<mappings, del_q, add_q, full>>
          ELSE LET cur == get_port_mappings(table, n)
                   dq == DeleteCalls(FORWARDING_PORTS, cur)
                   aq == AddCalls(FORWARDING_PORTS, OPNSENSE_NODES[master])
               IN  /\ mappings' = cur
                   /\ del_q' = dq
                   /\ add_q' = aq
                   /\ full' = (n = Len(table))
                   /\ pc' = Continue(dq, aq)
  /\ ok' = 0
  /\ ops' = <<>>
  /\ table0' = table
  /\ UNCHANGED <<config, table, current, master, detector, caller, listing, environment>>

\* lines 198-199 and 156-167: one delete_mapping call of loop 1
DeleteMapping ==
  /\ pc = "delete"
  /\ LET cfg == Head(del_q)
         there == HasKey(table, cfg.external, cfg.protocol)
     IN \E res \in Answers :
          /\ res = "ok" => there
          /\ (res # "ok" /\ there) => faults > 0
          /\ faults' = IF res # "ok" /\ there THEN faults - 1 ELSE faults
          /\ table' = IF res = "ok" THEN DevDelete(table, cfg.external, cfg.protocol)
                      ELSE table
          /\ ops' = Append(ops, [op |-> "delete", external |-> cfg.external,
                                protocol |-> cfg.protocol, res |-> res, mapped |-> there])
          /\ del_q' = Tail(del_q)
          /\ pc' = AfterCall(res, Continue(Tail(del_q), add_q))
  /\ UNCHANGED <<config, current, master, mappings, add_q, ok, full, table0,
                 detector, caller, listing, environment>>

\* lines 206-214 and 170-186: one add_mapping call of loop 2
AddMapping ==
  /\ pc = "add"
  /\ LET cfg == Head(add_q)
         there == HasKey(table, cfg.external, cfg.protocol)
     IN \E res \in Answers :
          /\ res # "ok" => faults > 0
          /\ faults' = IF res # "ok" THEN faults - 1 ELSE faults
          /\ table' = IF res = "ok"
                      THEN DevAdd(table, cfg.external, OPNSENSE_NODES[master].wan_ip,
                                  cfg.internal, cfg.protocol)
                      ELSE table
          /\ ok' = IF res = "ok" THEN ok + 1 ELSE ok
          /\ ops' = Append(ops, [op |-> "add", external |-> cfg.external,
                                protocol |-> cfg.protocol, res |-> res, mapped |-> there])
          /\ add_q' = Tail(add_q)
          /\ pc' = AfterCall(res, Continue(del_q, Tail(add_q)))
  /\ UNCHANGED <<config, current, master, mappings, del_q, full, table0,
                 detector, caller, listing, environment>>

\* the locals of update_for_master are gone once it has returned or raised
Forget ==
  /\ mappings' = <<>>
  /\ del_q' = <<>>
  /\ add_q' = <<>>
  /\ ok' = 0
  /\ ops' = <<>>
  /\ full' = FALSE
  /\ table0' = <<>>

(* ---------------------------------------------------------------------- *)
(* main                                                                    *)
(* ---------------------------------------------------------------------- *)
\* as NeedsFailover, but without the test that a master was detected
NeedsFailover_NoNoneCheck(m, cur) == m # cur

\* as NeedsFailover, but only while no master is recorded
NeedsFailover_OnlyFirst(m, cur) == m # None /\ cur = None

\* line 267: master and master != current
NeedsFailover(m, cur) == m # None /\ m # cur

\* lines 265-276 when check_opnsense_master returns one of ds: no failover is
\* due, or update_for_master is called
TickOn(ds) ==
  /\ pc = "main"
  /\ \E m \in ds :
       /\ master' = m
       /\ pc' = IF NeedsFailover(m, current) THEN "list" ELSE "main"
  /\ UNCHANGED <<config, table, faults, current, locals, detector, caller, listing, environment>>

Tick == TickOn(Detections)

\* lines 239 and 282: the ping of the except branch cannot be run, the
\* exception leaves check_opnsense_master and master is not assigned
DetectorRaises ==
  /\ pc = "main"
  /\ pc' = "raised"
  /\ UNCHANGED <<config, table, faults, current, master, locals, detector, caller, listing, environment>>

\* as ReturnValue, but an empty pass counts as success
ReturnValue_Always(k) == k >= 0

\* line 217: return ok > 0
ReturnValue(k) == k > 0

\* as NewCurrent, but the node is recorded whatever update_for_master returned
NewCurrent_Always(success, m, cur) == m

\* as NewCurrent, but the node is never recorded
NewCurrent_Never(success, m, cur) == cur

\* lines 270-271: current = master only when update_for_master returned True
NewCurrent(success, m, cur) == IF success THEN m ELSE cur

\* lines 217 and 270-276: update_for_master returns ok > 0 to main
Return ==
  /\ pc = "return"
  /\ current' = NewCurrent(ReturnValue(ok), master, current)
  /\ pc' = "main"
  /\ Forget
  /\ UNCHANGED <<config, table, faults, master, detector, caller, listing, environment>>

\* as AfterException, but the exception ends the process
AfterException_Crash == "crashed"

\* lines 282-284: the exception is logged and the loop goes on
AfterException == "main"

\* lines 282-284: an exception of the cycle is caught by the loop
Except ==
  /\ pc = "raised"
  /\ pc' = AfterException
  /\ Forget
  /\ UNCHANGED <<config, table, faults, current, master, detector, caller, listing, environment>>

\* lines 278-280: KeyboardInterrupt, at any point of a cycle, ends the loop;
\* a running update_for_master is abandoned
Interrupt ==
  /\ pc \notin {"stopped", "crashed"}
  /\ pc' = "stopped"
  /\ Forget
  /\ UNCHANGED <<config, table, faults, current, master, detector, caller, listing, environment>>

NoStatus == [n \in Nodes |-> [kind |-> "http_error", ifaces |-> {}]]
NoPing == [n \in Nodes |-> FALSE]

\* the locals before any call, and the parts a specification does not use
InitLocals ==
  /\ mappings = <<>>
  /\ del_q = <<>>
  /\ add_q = <<>>
  /\ ok = 0
  /\ ops = <<>>
  /\ full = FALSE
  /\ table0 = <<>>

InitDetector == status = NoStatus /\ ping = NoPing /\ via = "none" /\ evaluated = 0

InitCaller == calls = 0 /\ table1 = <<>> /\ idx = 0 /\ stable = None

\* lines 255-261: the state when the loop is entered
Init ==
  /\ FORWARDING_PORTS \in RuleLists
  /\ OPNSENSE_NODES \in NodeConfigs
  /\ table \in Tables
  /\ faults = MaxFaults
  /\ current = None
  /\ pc = "main"
  /\ master = None
  /\ InitLocals
  /\ InitDetector
  /\ InitCaller

Next ==
  \/ Tick \/ DetectorRaises \/ GetPortMappings \/ DeleteMapping \/ AddMapping
  \/ Return \/ Except \/ Interrupt

Spec == Init /\ [][Next]_vars

(* ---------------------------------------------------------------------- *)
(* update_for_master called directly, twice with the same node             *)
(* ---------------------------------------------------------------------- *)
\* fb.update_for_master(master), at most twice
Call ==
  /\ pc = "idle"
  /\ calls < 2
  /\ calls' = calls + 1
  /\ pc' = "list"
  /\ UNCHANGED <<config, table, faults, current, master, locals, detector, table1, listing, environment>>

\* line 217: update_for_master returns ok > 0 to its caller
ReturnToCaller ==
  /\ pc = "return"
  /\ table1' = IF calls = 1 THEN table ELSE table1
  /\ pc' = "idle"
  /\ Forget
  /\ UNCHANGED <<config, table, faults, current, master, detector, calls, listing, environment>>

InitUpdate ==
  /\ FORWARDING_PORTS \in RuleLists
  /\ OPNSENSE_NODES \in NodeConfigs
  /\ table \in Tables
  /\ faults = MaxFaults
  /\ current = None
  /\ pc = "idle"
  /\ master \in Nodes
  /\ InitLocals
  /\ InitDetector
  /\ InitCaller

NextUpdate == Call \/ GetPortMappings \/ DeleteMapping \/ AddMapping \/ ReturnToCaller

SpecUpdate == InitUpdate /\ [][NextUpdate]_vars

(* ---------------------------------------------------------------------- *)
(* check_opnsense_master on every pair of status answers and ping results  *)
(* ---------------------------------------------------------------------- *)
\* lines 223-244 on the answers drawn
Detect ==
  /\ pc = "detect"
  /\ master' = check_opnsense_master(status, ping).node
  /\ via' = check_opnsense_master(status, ping).via
  /\ evaluated' = check_opnsense_master(status, ping).evaluated
  /\ pc' = "detected"
  /\ UNCHANGED <<config, table, faults, current, locals, status, ping, caller, listing, environment>>

InitDetect ==
  /\ FORWARDING_PORTS = RuleList({1})
  /\ OPNSENSE_NODES = [n \in Nodes |-> [lan_ip |-> n, wan_ip |-> wan_ip(n),
                                        hostname |-> hostname(n), ports |-> {}]]
  /\ table = <<>>
  /\ faults = MaxFaults
  /\ current = None
  /\ pc = "detect"
  /\ master = None
  /\ InitLocals
  /\ status \in [Nodes -> StatusAnswers]
  /\ ping \in [Nodes -> BOOLEAN]
  /\ via = "none"
  /\ evaluated = 0
  /\ InitCaller

NextDetect == Detect

SpecDetect == InitDetect /\ [][NextDetect]_vars

(* ---------------------------------------------------------------------- *)
(* The two-rule scenario: each node is assigned one of two ports           *)
(* ---------------------------------------------------------------------- *)
\* the rule of FORWARDING_PORTS assigned to node n in the scenario
ScenarioRule(n) ==
  LET i == CHOOSE j \in 1..Len(FORWARDING_PORTS) :
             FORWARDING_PORTS[j].external \in OPNSENSE_NODES[n].ports
  IN  FORWARDING_PORTS[i]

InitScenario ==
  /\ FORWARDING_PORTS \in {r \in RuleLists : Len(r) = 2 /\ r[1].external # r[2].external}
  /\ OPNSENSE_NODES \in {c \in NodeConfigs :
        /\ \A n \in Nodes : Cardinality(c[n].ports) = 1
        /\ c[NodeOrder[1]].ports # c[NodeOrder[2]].ports}
  /\ table = <<>>
  /\ faults = MaxFaults
  /\ current = None
  /\ pc = "main"
  /\ master = None
  /\ InitLocals
  /\ InitDetector
  /\ InitCaller

SpecScenario == InitScenario /\ [][Next]_vars

(* ---------------------------------------------------------------------- *)
(* Properties                                                              *)
(* ---------------------------------------------------------------------- *)
\* the indices of the entries of table t with the key of rule r
EntriesOf(t, r) ==
  {i \in 1..Len(t) : t[i].ExternalPort = r.external /\ t[i].Protocol = r.protocol}

\* the positions of ops holding a call of this kind for the key of rule r
CallsOf(kind, r) ==
  {i \in 1..Len(ops) : ops[i].op = kind /\ ops[i].external = r.external
                        /\ ops[i].protocol = r.protocol}

RuleIndices == 1..Len(FORWARDING_PORTS)
AssignedTo(r, n) == r.external \in OPNSENSE_NODES[n].ports

\* the listing returned the whole table and the router accepted every delete and add
AllAccepted == full /\ \A i \in 1..Len(ops) : ops[i].res = "ok"
DeletesAccepted == full /\ \A i \in 1..Len(ops) : ops[i].op = "delete" => ops[i].res = "ok"

\* the entries of t with a configured key are exactly the rules assigned to
\* node n, one entry each, forwarding to n's wan_ip
ExactlyRulesOf(t, n) ==
  \A k \in RuleIndices :
    LET r == FORWARDING_PORTS[k]
        e == EntriesOf(t, r)
    IN  IF AssignedTo(r, n)
        THEN Cardinality(e) = 1 /\ \A i \in e : t[i].InternalClient = OPNSENSE_NODES[n].wan_ip
        ELSE e = {}

\* C1 as claimed: whenever update_for_master is about to return True, the
\* entries of the NAT table with a configured key are exactly the rules
\* assigned to the new master, one entry per rule, each forwarding to the
\* master's wan_ip.
C1_AsClaimed == (pc = "return" /\ ok > 0) => ExactlyRulesOf(table, master)

\* C1 amended: the same, for a call in which the listing returned the whole
\* table and the router accepted every delete and every add.
C1_ExactAfterCleanSuccess ==
  (pc = "return" /\ ok > 0 /\ AllAccepted) => ExactlyRulesOf(table, master)

\* a clean successful call that deleted a stale entry of a rule not assigned
\* to the master and added a rule
C1_Witness ==
  /\ pc = "return" /\ ok > 0 /\ AllAccepted
  /\ \E k \in RuleIndices :
       /\ ~AssignedTo(FORWARDING_PORTS[k], master)
       /\ EntriesOf(table0, FORWARDING_PORTS[k]) # {}
       /\ EntriesOf(table, FORWARDING_PORTS[k]) = {}

\* C2 as claimed: no add is ever issued for a key that is still in the table,
\* so every configured entry present before is gone when its key is added.
C2_AsClaimed == \A i \in 1..Len(ops) : ops[i].op = "add" => ~ops[i].mapped

\* C2 amended: before any add is issued, a delete has been issued for every
\* listed mapping with the key of a configured rule; and when the listing
\* returned the whole table and every delete was accepted, no add is issued
\* for a key that is still in the table.
C2_DeleteIssuedBeforeAdd ==
  /\ \A i \in 1..Len(ops) :
       ops[i].op = "add" =>
         \A k \in RuleIndices, j \in 1..Len(mappings) :
           ( /\ mappings[j].ExternalPort = Str(FORWARDING_PORTS[k].external)
             /\ mappings[j].Protocol = FORWARDING_PORTS[k].protocol )
           => \E d \in CallsOf("delete", FORWARDING_PORTS[k]) : d < i
  /\ DeletesAccepted => \A i \in 1..Len(ops) : ops[i].op = "add" => ~ops[i].mapped

\* an add was issued for a key whose old entry an accepted delete had removed
C2_Witness ==
  \E i, j \in 1..Len(ops) :
    /\ i < j
    /\ ops[i].op = "delete" /\ ops[i].res = "ok"
    /\ ops[j].op = "add" /\ ~ops[j].mapped
    /\ ops[i].external = ops[j].external /\ ops[i].protocol = ops[j].protocol

\* C3 as claimed: the table after the second of two calls with the same node
\* is the table after the first.
C3_AsClaimed == (pc = "return" /\ calls = 2) => table = table1

\* C3 amended: the same, when the router accepted every call of both
\* invocations (whole listings, no error answer, no exception).
C3_IdempotentWhenAccepted ==
  (pc = "return" /\ calls = 2 /\ faults = MaxFaults) => table = table1

\* a second clean call that deleted and re-created a rule the first had created
C3_Witness ==
  /\ pc = "return" /\ calls = 2 /\ faults = MaxFaults
  /\ ok > 0
  /\ \E i \in 1..Len(ops) : ops[i].op = "delete"
  /\ table = table1

\* the router rejected an add, and some rule of this set has no rejected add
RejectsSomeAddsOf(set) ==
  /\ \E i \in 1..Len(ops) : ops[i].op = "add" /\ ops[i].res = "error"
  /\ \E k \in set : \A i \in CallsOf("add", FORWARDING_PORTS[k]) : ops[i].res # "error"

\* every rule whose add succeeded is mapped to the master's wan_ip, every rule
\* whose add failed has no entry
AddOutcomesShow ==
  \A i \in 1..Len(ops) :
    ops[i].op = "add" =>
      LET e == {j \in 1..Len(table) : table[j].ExternalPort = ops[i].external
                                      /\ table[j].Protocol = ops[i].protocol}
      IN  IF ops[i].res = "ok"
          THEN e # {} /\ \A j \in e : table[j].InternalClient = OPNSENSE_NODES[master].wan_ip
          ELSE e = {}

\* C5 as claimed: when the router rejects the add for some but not all of the
\* configured rules (and accepts every other call), the pass has issued a
\* delete for every configured rule and an add for every configured rule,
\* returns True, the accepted rules are mapped to the new target and the
\* rejected ones have no entry.
C5_AsClaimed ==
  (pc = "return" /\ DeletesAccepted /\ RejectsSomeAddsOf(RuleIndices)) =>
    /\ \A k \in RuleIndices : CallsOf("delete", FORWARDING_PORTS[k]) # {}
    /\ \A k \in RuleIndices : CallsOf("add", FORWARDING_PORTS[k]) # {}
    /\ ok > 0
    /\ AddOutcomesShow

\* C5 amended: when the router rejects the add for some but not all of the
\* configured rules assigned to the new master (and accepts every other
\* call), the pass has issued a delete for every configured rule that was
\* mapped and an add for every configured rule assigned to the master,
\* returns True, the accepted rules are mapped to the new target and the
\* rejected ones have no entry.
C5_PartialFailureContained ==
  (pc = "return" /\ DeletesAccepted
     /\ RejectsSomeAddsOf({k \in RuleIndices : AssignedTo(FORWARDING_PORTS[k], master)})) =>
    /\ \A k \in RuleIndices :
         EntriesOf(table0, FORWARDING_PORTS[k]) # {} => CallsOf("delete", FORWARDING_PORTS[k]) # {}
    /\ \A k \in RuleIndices :
         AssignedTo(FORWARDING_PORTS[k], master) => CallsOf("add", FORWARDING_PORTS[k]) # {}
    /\ ok > 0
    /\ AddOutcomesShow

\* a pass over two mapped rules in which the first add was rejected and the
\* second accepted
C5_Witness ==
  /\ pc = "return" /\ DeletesAccepted
  /\ \E i, j \in 1..Len(ops) :
       /\ i < j
       /\ ops[i].op = "add" /\ ops[i].res = "error"
       /\ ops[j].op = "add" /\ ops[j].res = "ok"
  /\ \E i \in 1..Len(ops) : ops[i].op = "delete"

\* C10: in a reconciliation no delete is issued after an add, and when the
\* first add is issued a delete has been issued for every match of a
\* configured rule with a listed mapping and none is left to issue.
C10_DeletesBeforeAdds ==
  /\ \A i, j \in 1..Len(ops) : (ops[i].op = "add" /\ ops[j].op = "delete") => j < i
  /\ (pc = "add" \/ \E i \in 1..Len(ops) : ops[i].op = "add") =>
       /\ del_q = <<>>
       /\ Cardinality({i \in 1..Len(ops) : ops[i].op = "delete"})
            = Cardinality({kj \in RuleIndices \X (1..Len(mappings)) :
                             /\ mappings[kj[2]].ExternalPort = Str(FORWARDING_PORTS[kj[1]].external)
                             /\ mappings[kj[2]].Protocol = FORWARDING_PORTS[kj[1]].protocol})

\* two deletes, then an add while another add is still due
C10_Witness ==
  /\ pc = "add"
  /\ Len(ops) = 3
  /\ ops[1].op = "delete" /\ ops[2].op = "delete" /\ ops[3].op = "add"

\* no entry of a configured rule whose port is assigned to the other node
\* forwards to the wan_ip of node n
NoCrossEntry(t, n) ==
  \A k \in RuleIndices :
    AssignedTo(FORWARDING_PORTS[k], Other(n)) =>
      \A i \in EntriesOf(t, FORWARDING_PORTS[k]) : t[i].InternalClient # OPNSENSE_NODES[n].wan_ip

PortsDisjoint == OPNSENSE_NODES[NodeOrder[1]].ports \cap OPNSENSE_NODES[NodeOrder[2]].ports = {}

\* C4 as claimed: after every reconciliation of the controller, for either
\* node and after any earlier reconciliations, no rule assigned to the other
\* node is forwarded to the reconciled node's wan_ip.
C4_AsClaimed == pc = "return" => NoCrossEntry(table, master)

\* C4 amended: the same, provided the two nodes' ports lists are disjoint and
\* in that reconciliation the listing returned the whole table and every
\* delete was accepted.
C4_NoCrossContamination ==
  (pc = "return" /\ PortsDisjoint /\ DeletesAccepted) => NoCrossEntry(table, master)

\* a switch back: the other node is the recorded master, the table held one of
\* its rules forwarded to it, and this reconciliation has added a rule
C4_Witness ==
  /\ pc = "return" /\ PortsDisjoint /\ DeletesAccepted
  /\ current = Other(master)
  /\ ok > 0
  /\ \E k \in RuleIndices :
       /\ AssignedTo(FORWARDING_PORTS[k], current)
       /\ \E i \in EntriesOf(table0, FORWARDING_PORTS[k]) :
            table0[i].InternalClient = OPNSENSE_NODES[current].wan_ip

\* C8: a tick whose detection returns None (a step of the loop that is neither
\* an exception of the detector nor the interrupt) issues no NAT call and
\* leaves the recorded master and the NAT table as they were.
C8_NoSignalStability ==
  [][(pc = "main" /\ pc' \notin {"raised", "stopped"} /\ master' = None) =>
       (pc' = "main" /\ current' = current /\ table' = table /\ ops' = ops)]_vars

\* a master is recorded and the last tick detected none
C8_Witness == pc = "main" /\ current # None /\ master = None

\* a status query that failed: it raised, or the answer was not status 200
StatusFailed(a) == a.kind \in Raising \cup {"http_error"}

\* C6 as claimed: when the first node's status query times out and the second
\* node's status answer reports the master role, the detector returns the
\* second node, chosen by its status answer and not by the ping.
C6_AsClaimed ==
  (pc = "detected" /\ status[NodeOrder[1]].kind = "timeout"
     /\ ReportsMaster(status[NodeOrder[2]])) =>
    (master = NodeOrder[2] /\ via = "status")

\* C6 amended: the same, when the first node does not answer the ping either.
C6_StatusBeforeFallback ==
  (pc = "detected" /\ status[NodeOrder[1]].kind = "timeout" /\ ~ping[NodeOrder[1]]
     /\ ReportsMaster(status[NodeOrder[2]])) =>
    (master = NodeOrder[2] /\ via = "status")

\* the first node is down, the second reports master and would answer a ping
C6_Witness ==
  /\ pc = "detected" /\ status[NodeOrder[1]].kind = "timeout" /\ ~ping[NodeOrder[1]]
  /\ ReportsMaster(status[NodeOrder[2]]) /\ ping[NodeOrder[2]]
  /\ master = NodeOrder[2] /\ via = "status"

\* C7 as claimed: when both status queries fail, in whatever way, and only
\* node a answers the ping, the detector returns a, first or second in order.
C7_AsClaimed ==
  \A a \in Nodes :
    (pc = "detected" /\ StatusFailed(status[a]) /\ StatusFailed(status[Other(a)])
       /\ ping[a] /\ ~ping[Other(a)]) =>
      master = a

\* C7 amended: the same, when a's status query failed by raising (unreachable,
\* timeout, malformed response); the other node's may have failed in any way.
C7_FallbackToPing ==
  \A a \in Nodes :
    (pc = "detected" /\ status[a].kind \in Raising /\ StatusFailed(status[Other(a)])
       /\ ping[a] /\ ~ping[Other(a)]) =>
      (master = a /\ via = "ping")

\* the second node is returned by its ping after the first one's query and
\* ping both failed
C7_Witness ==
  /\ pc = "detected"
  /\ status[NodeOrder[2]].kind = "malformed" /\ status[NodeOrder[1]].kind = "unreachable"
  /\ ping[NodeOrder[2]] /\ ~ping[NodeOrder[1]]
  /\ master = NodeOrder[2] /\ via = "ping"

\* the table holding nothing but the scenario's rule of node n, forwarded to n
OnlyRuleOf(n) ==
  << [ExternalPort |-> ScenarioRule(n).external, Protocol |-> ScenarioRule(n).protocol,
      InternalPort |-> ScenarioRule(n).internal, InternalClient |-> OPNSENSE_NODES[n].wan_ip] >>

\* C9: in the scenario (two rules, one port per node, the table empty at the
\* start), as long as the router has accepted every call, a finished
\* reconciliation for a node and every later idle state with that node
\* recorded show exactly that node's rule, forwarded to it, whichever node
\* was master before.
C9_ScenarioSwitch ==
  faults = MaxFaults =>
    /\ pc = "return" => table = OnlyRuleOf(master)
    /\ (pc = "main" /\ current # None) => table = OnlyRuleOf(current)
    /\ (pc = "main" /\ current = None) => table = <<>>

\* the first node was recorded first, and the switch to the second has just
\* replaced its rule
C9_Witness ==
  /\ faults = MaxFaults /\ pc = "return"
  /\ current = NodeOrder[1] /\ master = NodeOrder[2]
  /\ table0 = OnlyRuleOf(NodeOrder[1])
  /\ table = OnlyRuleOf(NodeOrder[2])

\* ---------------------------------------------------------------------------
\* the recorded master (main, lines 261-284)

\* C11: current starts as None; it changes only in the step that takes the
\* return of an update_for_master with ok > 0, and then it becomes the node that
\* was reconciled; the return of a failed pass, the handling of an exception
\* and the interrupt leave it as it was.
C11_RecordedOnlyOnSuccess ==
  /\ (current = None /\ pc = "main")
  /\ [][/\ current' # current =>
             (pc = "return" /\ pc' = "main" /\ ok > 0 /\ current' = master)
        /\ (pc = "return" /\ pc' = "main" /\ ok > 0) => current' = master
        /\ (pc = "return" /\ ok = 0) => current' = current
        /\ pc = "raised" => current' = current
        /\ pc' = "stopped" => current' = current]_vars

\* a pass toward the node that is not the recorded master has ended without
\* success and the loop is between two cycles
C11_Witness ==
  /\ pc = "main"
  /\ current = NodeOrder[2]
  /\ master = NodeOrder[1]

\* ---------------------------------------------------------------------------
\* the result of update_for_master (lines 201-217)

\* the positions of ops holding an add the router accepted
AcceptedAdds == {i \in 1..Len(ops) : ops[i].op = "add" /\ ops[i].res = "ok"}

\* no configured rule has its external port among the ports of node n
NoRuleOf(n) == \A k \in RuleIndices : ~AssignedTo(FORWARDING_PORTS[k], n)

\* C12: update_for_master returns True exactly when the router accepted at
\* least one add of the pass; it returns False when every add was rejected, and
\* also when no rule is assigned to the master, in which case no add was issued
\* while the delete of every listed configured mapping was.
C12_SuccessIffSomeAdd ==
  pc = "return" =>
    /\ ReturnValue(ok) <=> AcceptedAdds # {}
    /\ NoRuleOf(master) =>
         /\ ~ReturnValue(ok)
         /\ \A i \in 1..Len(ops) : ops[i].op = "delete"
         /\ \A k \in RuleIndices : \A i \in 1..Len(mappings) :
              Matches(FORWARDING_PORTS[k], mappings[i]) =>
                CallsOf("delete", FORWARDING_PORTS[k]) # {}

\* a pass for a master without assigned rules returns False after the router
\* accepted a delete
C12_Witness ==
  /\ pc = "return"
  /\ NoRuleOf(master)
  /\ ok = 0
  /\ \E i \in 1..Len(ops) : ops[i].op = "delete" /\ ops[i].res = "ok"

\* ---------------------------------------------------------------------------
\* a failing NAT call and the rest of the pass (lines 80-121, 156-217)

\* every delete and every add that the pass owes has been issued
AllCallsIssued ==
  \A k \in RuleIndices :
    LET r == FORWARDING_PORTS[k]
    IN  /\ (\E i \in 1..Len(mappings) : Matches(r, mappings[i])) =>
             CallsOf("delete", r) # {}
        /\ AssignedTo(r, master) => CallsOf("add", r) # {}

\* C13, as the specification states it: after a delete or an add failed, by an
\* error answer, a timeout or a transport error, the pass still issues the
\* delete and the add of every remaining configured rule.  requests.post
\* raises on a timeout or a transport error and nothing in _soap,
\* delete_mapping, add_mapping or update_for_master catches it, so the pass
\* ends at the failing call.
C13_AsClaimed ==
  (pc \in {"return", "raised"} /\ \E i \in 1..Len(ops) : ops[i].res # "ok") =>
    AllCallsIssued

\* ---------------------------------------------------------------------------
\* the decision of a tick (main, lines 263-276)

\* a step of the loop in which check_opnsense_master returned: neither the
\* exception of the detector nor the interrupt
TickReturned == pc = "main" /\ pc' \notin {"raised", "stopped"}

\* C14: a tick calls update_for_master exactly when the detected node is a
\* node other than the recorded master; otherwise it issues no NAT call and the
\* table stays as it is.  A pass that returned False or raised leaves the loop
\* between two cycles with the detected node still other than the recorded
\* master, so that the next tick detecting it calls update_for_master again.
C14_ReconcileIffDiffers ==
  [][/\ TickReturned =>
          /\ pc' = "list" <=> (master' \in Nodes /\ master' # current)
          /\ pc' # "list" => (pc' = "main" /\ table' = table /\ ops' = ops
                               /\ current' = current)
     /\ (pc = "return" /\ ok = 0 /\ pc' = "main") =>
          (master' \in Nodes /\ master' # current')
     /\ (pc \in {"list", "delete", "add"} /\ pc' = "raised") =>
          (master' \in Nodes /\ master' # current')
     /\ (pc = "raised" /\ pc' = "main") =>
          (master' = master /\ current' = current)]_vars

\* a tick has called update_for_master for the second node while the first is
\* recorded, after the router failed in an earlier call
C14_Witness ==
  /\ pc = "list"
  /\ current = NodeOrder[1]
  /\ master = NodeOrder[2]
  /\ faults < MaxFaults

\* ---------------------------------------------------------------------------
\* exceptions of a cycle (main, lines 263-284)

\* C15: an exception raised in a cycle, by the detector, the listing, a delete
\* or an add, does not end the loop: the process never dies of it, the step
\* after the exception is the loop going on with the recorded master as it was
\* (or the interrupt), and the loop ends by the interrupt only, which touches
\* neither the recorded master nor the table.
C15_ExceptionsContained ==
  /\ [](pc # "crashed")
  /\ [][/\ pc = "raised" =>
             (pc' \in {"main", "stopped"} /\ current' = current /\ table' = table)
        /\ pc' = "stopped" => (current' = current /\ table' = table)
        /\ pc = "stopped" => pc' = "stopped"]_vars

\* an exception of a delete or an add is about to be handled while a master is
\* recorded
C15_Witness ==
  /\ pc = "raised"
  /\ current \in Nodes
  /\ \E i \in 1..Len(ops) : ops[i].res = "raise"

\* ---------------------------------------------------------------------------
\* the order of detection (check_opnsense_master, lines 223-244)

\* node n qualifies: its status answer reports the master role, or its status
\* query failed (unreachable, timeout, malformed response) and it answers the ping
Qualifies(n) == ReportsMaster(status[n]) \/ (status[n].kind \in Raising /\ ping[n])

\* the positions in the configured order of the nodes that qualify
Qualifying == {i \in 1..Len(NodeOrder) : Qualifies(NodeOrder[i])}

\* C16: the detector returns the first node, in the configured order, that
\* qualifies, and has queried no node after it; when both nodes qualify by
\* their ping only, that is the first node; when no node qualifies it has
\* queried both and returns None.
C16_FirstQualifyingNode ==
  pc = "detected" =>
    /\ Qualifying = {} => (master = None /\ evaluated = Len(NodeOrder))
    /\ \A i \in Qualifying :
         (\A j \in Qualifying : i <= j) => (master = NodeOrder[i] /\ evaluated = i)
    /\ (\A n \in Nodes : status[n].kind \in Raising /\ ping[n]) =>
         (master = NodeOrder[1] /\ via = "ping")

\* the first node qualifies by its ping and the second one's status answer
\* reports the master role: the first is returned, the second was not queried
C16_Witness ==
  /\ pc = "detected"
  /\ status[NodeOrder[1]].kind \in Raising /\ ping[NodeOrder[1]]
  /\ ReportsMaster(status[NodeOrder[2]])
  /\ master = NodeOrder[1] /\ evaluated = 1

(* ---------------------------------------------------------------------- *)
(* get_port_mappings, one request at a time                                *)
(* ---------------------------------------------------------------------- *)
\* as NextIdx, but an index is left out
NextIdx_Skip(i) == i + 2

\* line 147: idx += 1
NextIdx(i) == i + 1

\* lines 128-150: one turn of the loop.  The router holds an entry for the
\* indices below Len(table) and answers any other index with an error; it may
\* also fail an index it holds, or the request may raise.  An error answer
\* (and a reply that cannot be parsed, line 149) ends the loop and the list is
\* returned; an exception of the request leaves the function.
Query ==
  /\ pc = "scan"
  /\ \E res \in Answers :
       LET fault == res = "raise" \/ (res = "error" /\ idx < Len(table))
       IN  /\ res = "ok" => idx < Len(table)
           /\ fault => faults > 0
           /\ faults' = IF fault THEN faults - 1 ELSE faults
           /\ ops' = Append(ops, [op |-> "list", index |-> idx, res |-> res])
           /\ IF res = "ok"
              THEN /\ mappings' = Append(mappings, ParseEntry(table[idx + 1], idx))
                   /\ idx' = NextIdx(idx)
                   /\ pc' = "scan"
              ELSE /\ pc' = IF res = "error" THEN "listed" ELSE "raised"
                   /\ UNCHANGED <<mappings, idx>>
  /\ UNCHANGED <<config, table, current, master, del_q, add_q, ok, full, table0,
                 detector, caller, environment>>

\* lines 125-126: mappings = [], idx = 0, against any table
InitList ==
  /\ FORWARDING_PORTS = RuleList({1})
  /\ OPNSENSE_NODES = [n \in Nodes |-> [lan_ip |-> n, wan_ip |-> wan_ip(n),
                                        hostname |-> hostname(n), ports |-> {}]]
  /\ table \in Tables
  /\ faults = MaxFaults
  /\ current = None
  /\ pc = "scan"
  /\ master = None
  /\ InitLocals
  /\ InitDetector
  /\ InitCaller

NextList == Query

\* the loop has no wait in it: a turn that can be taken is taken
SpecList == InitList /\ [][NextList]_vars /\ WF_vars(NextList)

\* C17: get_port_mappings asks for the indices 0, 1, 2, ... in this order; it
\* returns at the first index the router answers with an error, and what it
\* returns is the list of the entries of all lower indices, in index order,
\* each with its index; nothing is raised for that error.  The function
\* terminates: the router holds finitely many entries and answers the first
\* index past them with an error.
C17_ListingStopsAtFirstFailure ==
  /\ [](\A i \in 1..Len(ops) : ops[i].op = "list" => ops[i].index = i - 1)
  /\ [](pc = "listed" =>
          /\ ops # <<>> /\ ops[Len(ops)].res = "error"
          /\ \A i \in 1..(Len(ops) - 1) : ops[i].res = "ok"
          /\ Len(mappings) = Len(ops) - 1
          /\ \A i \in 1..Len(mappings) : mappings[i] = ParseEntry(table[i], i - 1)
          /\ mappings = get_port_mappings(table, Len(ops) - 1))
  /\ [](\A i \in 1..Len(ops) : ops[i].res = "error" => pc = "listed")
  /\ <>(pc \in {"listed", "raised"})

\* the router failed index 1 of a table of two entries: the list returned
\* holds the entry of index 0
C17_Witness ==
  /\ pc = "listed"
  /\ Len(table) = 2
  /\ Len(mappings) = 1
  /\ mappings[1].Index = 0

\* ---------------------------------------------------------------------------
\* the table while a master is recorded (main 261-276, update_for_master 194-217)

\* table t forwards some rule assigned to node n to n's wan_ip
ForwardsSomeRuleTo(t, n) ==
  \E k \in RuleIndices :
    /\ AssignedTo(FORWARDING_PORTS[k], n)
    /\ \E i \in EntriesOf(t, FORWARDING_PORTS[k]) :
         t[i].InternalClient = OPNSENSE_NODES[n].wan_ip

\* table t forwards no configured rule to the wan_ip of node n
ForwardsNoRuleTo(t, n) ==
  \A k \in RuleIndices : \A i \in EntriesOf(t, FORWARDING_PORTS[k]) :
    t[i].InternalClient # OPNSENSE_NODES[n].wan_ip

\* C18, as the specification states it: between two cycles with node N
\* recorded, the table forwards at least one rule assigned to N to N and no
\* configured rule to the other node, also after passes toward the other node
\* that failed.  Such a pass has already deleted N's mappings when it returns
\* False, and main keeps N recorded.
C18_AsClaimed ==
  (pc = "main" /\ current \in Nodes) =>
    /\ ForwardsSomeRuleTo(table, current)
    /\ ForwardsNoRuleTo(table, Other(current))

\* ---------------------------------------------------------------------------
\* mappings that are nobody's rule (update_for_master, lines 194-214)

\* the (ExternalPort, Protocol) key of table entry m is the key of no configured rule
Unrelated(m) ==
  \A k \in RuleIndices :
    ~(m.ExternalPort = FORWARDING_PORTS[k].external /\ m.Protocol = FORWARDING_PORTS[k].protocol)

\* C19: from its listing to its end, whether it returns or raises and
\* whatever the router answers, update_for_master leaves the mappings with an
\* unconfigured key as they were when it began: the same entries, unchanged,
\* none added.
C19_UnrelatedUntouched ==
  pc \in {"delete", "add", "return", "raised"} =>
    SelectSeq(table, Unrelated) = SelectSeq(table0, Unrelated)

\* a pass that deleted and added configured mappings returns, with an
\* unconfigured mapping in the table from the start
C19_Witness ==
  /\ pc = "return"
  /\ \E i \in 1..Len(table0) : Unrelated(table0[i])
  /\ \E i \in 1..Len(ops) : ops[i].op = "delete" /\ ops[i].res = "ok"
  /\ \E i \in 1..Len(ops) : ops[i].op = "add" /\ ops[i].res = "ok"

(* ---------------------------------------------------------------------- *)
(* The loop while the detection settles on one node                        *)
(* ---------------------------------------------------------------------- *)
\* from some tick on the nodes answer so that check_opnsense_master returns
\* the same node at every call
Settle ==
  /\ pc = "main"
  /\ stable = None
  /\ \E n \in Nodes : stable' = n
  /\ UNCHANGED <<config, table, faults, current, pc, master, locals, detector, caller, listing>>

\* lines 263-276: a tick; once the detection has settled it returns that node
TickSettling == TickOn(IF stable = None THEN Detections ELSE {stable})

\* lines 239 and 282: the detector raises, which a settled detection does not
RaisesUnsettled == stable = None /\ DetectorRaises

\* lines 255-261, the table empty when the loop is entered
InitConverge ==
  /\ FORWARDING_PORTS \in RuleLists
  /\ OPNSENSE_NODES \in NodeConfigs
  /\ table = <<>>
  /\ faults = MaxFaults
  /\ current = None
  /\ pc = "main"
  /\ master = None
  /\ InitLocals
  /\ InitDetector
  /\ InitCaller

\* the loop without the interrupt
NextConverge ==
  \/ Settle \/ TickSettling \/ RaisesUnsettled
  \/ GetPortMappings \/ DeleteMapping \/ AddMapping \/ Return \/ Except

\* lines 263-284: the loop sleeps and goes on, a cycle that can be run is run
SpecConverge == InitConverge /\ [][NextConverge]_vars /\ WF_vars(NextConverge)

\* C20: once the detection has settled on node N, N having a configured rule
\* among its ports, and the router failing only finitely many calls (the
\* faults of a run are bounded), the loop reaches a point from which N is the
\* recorded master and it stays between cycles, issuing no NAT call, for ever.
C20_Convergence ==
  \A n \in Nodes :
    (stable = n /\ ~NoRuleOf(n)) ~> [](current = n /\ pc = "main")

\* the detection has settled on a node that was not the recorded master, the
\* router has failed as often as it may, and that node is now recorded
C20_Witness ==
  /\ stable \in Nodes
  /\ ~NoRuleOf(stable)
  /\ current = stable
  /\ pc = "main"
  /\ faults = 0
  /\ ForwardsSomeRuleTo(table, stable)

====
